---- MODULE Spec2Model ----
(***************************************************************************)
(* A model of wall-cloud's WallSpectrumLiveMonitor (src/main.py): the      *)
(* deduplicating tick table, the chunked backfill, the live tick           *)
(* collector, the candle query, the streak scan, the king selection, the   *)
(* scheduler of run() and update_config.                                   *)
(*                                                                         *)
(* Specifications:                                                         *)
(*   Spec          backfill_data followed by tick_collector on the table   *)
(*   SpecBucket    the bucket expression of the candle query               *)
(*   SpecAgg       the candle query on a small table                       *)
(*   SpecScan      the streak scan of one candle list, candle by candle    *)
(*   SpecStrength  the strength and the admission test of one histogram    *)
(*                 entry                                                   *)
(*   SpecPass      one analysis pass over the (cycle, offset) grid         *)
(*   SpecChunk     the chunk loop and the pool of backfill_data            *)
(*   SpecCollector tick_collector with its reconnection sleep              *)
(*   SpecSched     the passes of run(), with errors and their timing       *)
(*   SpecKings     a pass over two pairs with every strength admitted      *)
(*   SpecConfig    a pass of run() while update_config is served           *)
(***************************************************************************)
EXTENDS Integers, Sequences, FiniteSets, TLC

(* ---------------- program constants ---------------- *)

\* sort_key = timestamp * 100000 + index (main.py:58, main.py:105)
KeyScale == 100000

\* chunk width of the backfill (main.py:79)
ChunkSpan == 600

\* ThreadPoolExecutor(max_workers=5) (main.py:83)
MaxWorkers == 5

\* if len(candles) < 5: continue (main.py:131)
MinCandles == 5

\* except: time.sleep(5) (main.py:108)
Backoff == 5

\* time.sleep(10) (main.py:200)
SleepInterval == 10

\* start_ts = now_ts - (24 * 3600) (main.py:117)
DayWindow == 86400

(* ---------------- bounds of the model ---------------- *)

\* ticks in one ticks_history response
MaxResp == 2

\* prices are 1..MaxPrice
MaxPrice == 2

\* tick messages delivered by the live subscription
MaxLive == 3

\* timestamps of the one-tick tables of SpecBucket are 0..MaxBucketTs
MaxBucketTs == 130

\* rows in a table of SpecAgg
MaxRows == 3

\* timestamps in a table of SpecAgg are 0..MaxAggTs
MaxAggTs == 4

\* bucket slots of a table of SpecScan
MaxSlots == 7

\* run counts of a histogram entry of SpecStrength are up to MaxRuns
MaxRuns == 10

\* run lengths of a histogram of SpecPass are 1..MaxLen
MaxLen == 2

\* run counts of a histogram of SpecPass are up to MaxCount
MaxCount == 3

\* passes of run() in a behaviour
MaxPasses == 2

\* the backfill windows of SpecChunk span up to MaxChunks whole chunks and a second
MaxChunks == 2

\* the compute duration of a pass is 0..MaxDuration time units
MaxDuration == 1

\* requests to /update_config in a behaviour, each served by a thread of its own
MaxHandlers == 2

VARIABLES
    (* backfill_data / tick_collector *)
    req_start,      \* main.py:74
    now_ts,         \* main.py:73
    tasks,          \* main.py:76-81, the chunk list
    curr,           \* main.py:77, the start of the next chunk
    futures,        \* main.py:84, per chunk: state and result of fetch_ticks_chunk
    con,            \* the ticks table: set of rows [timestamp, price, sort_key]
    status,         \* LATEST_DATA["status"]
    running,        \* self.running
    collector,      \* position of tick_collector
    backoff,        \* the time units left of the sleep at main.py:108
    live_recv,      \* the tick messages the subscription has delivered, in order
    price,          \* LATEST_DATA["price"]
    backfilled,     \* the rows of the table when backfill completed
    (* analyze_logic *)
    pc,             \* position in analyze_logic
    cycle,          \* main.py:119
    offset,         \* main.py:120
    start_ts,       \* main.py:117
    candles,        \* main.py:130, the rows of the query: <<bucket, open, close>>
    i,              \* main.py:141, the index of the next candle of the scan (from 0)
    prev_ts,        \* main.py:136
    curr_color,     \* main.py:138
    curr_streak,    \* main.py:139
    red_streaks,    \* main.py:133, run length -> number of runs
    green_streaks,  \* main.py:134
    CONFIG,         \* main.py:14-20
    cycle_start,    \* main.py:119, the start of range(MIN_CYCLE, MAX_CYCLE + 1)
    cycle_stop,     \* main.py:119, the end of range(MIN_CYCLE, MAX_CYCLE + 1)
    todo,           \* main.py:169-170, the histogram entries still to be iterated
    streak_kings,   \* main.py:112, (color, level) -> king
    kings,          \* LATEST_DATA["kings"]
    passes,         \* the number of passes run() has begun
    update,         \* update_config: per request, its body and its next assignment
    pass_config,    \* CONFIG as it was when the pass in flight began
    clock,          \* the time
    pass_started    \* the time at which the pass in flight began

ingestVars == <<req_start, now_ts, tasks, curr, futures, con, status, running,
                collector, backoff, live_recv, price, backfilled>>

queryVars == <<pc, cycle, offset, start_ts, candles>>

scanVars == <<i, prev_ts, curr_color, curr_streak, red_streaks, green_streaks>>

passVars == <<CONFIG, cycle_start, cycle_stop, todo, streak_kings, kings, passes, update,
              pass_config, clock, pass_started>>

vars == <<ingestVars, queryVars, scanVars, passVars>>

(* ---------------- the ticks table (setup_database) ---------------- *)

Row(t, p, k) == [timestamp |-> t, price |-> p, sort_key |-> k]

Keys(table) == {r.sort_key : r \in table}

\* INSERT OR REPLACE: the new row overwrites the stored one
InsertOrReplace(table, row) ==
    {r \in table : r.sort_key # row.sort_key} \cup {row}

\* INSERT OR IGNORE INTO ticks VALUES (?, ?, ?) under the UNIQUE INDEX on sort_key
InsertOrIgnore(table, row) ==
    IF row.sort_key \in Keys(table) THEN table ELSE table \cup {row}

\* executemany: the rows are inserted one after the other, in list order
RECURSIVE ExecuteMany(_, _)
ExecuteMany(table, data) ==
    IF data = <<>> THEN table
    ELSE ExecuteMany(InsertOrIgnore(table, Head(data)), Tail(data))

(* ---------------- fetch_ticks_chunk ---------------- *)

\* a response is a sequence of <<time, price>>: history.times[i], history.prices[i]
\* [(t[i], p[i], (t[i]*100000)+i) for i in range(len(t))]
ChunkRows(res) ==
    [h \in 1..Len(res) |-> Row(res[h][1], res[h][2], res[h][1] * KeyScale + (h - 1))]

\* the upstream's answers for a chunk: up to MaxResp ticks with times at the
\* chunk's two ends, in time order
Responses(task) ==
    LET T == {task[1], task[2]}
        P == 1..MaxPrice
        S == UNION {[1..n -> T \X P] : n \in 0..MaxResp}
    IN  {s \in S : \A h \in 1..Len(s) - 1 : s[h][1] <= s[h + 1][1]}

(* ---------------- backfill_data ---------------- *)

Min(a, b) == IF a <= b THEN a ELSE b

\* while curr < now_ts: end = min(now_ts, curr + 600); tasks.append((curr, end)); curr = end
RECURSIVE ChunkLoop(_, _, _)
ChunkLoop(from, now, acc) ==
    IF from < now
    THEN ChunkLoop(Min(now, from + ChunkSpan), now,
                   Append(acc, <<from, Min(now, from + ChunkSpan)>>))
    ELSE acc

Chunks(start, now) == ChunkLoop(start, now, <<>>)

\* one turn of the loop with "end = curr + 600"
ChunkStepNoClamp ==
    /\ status = "Backfilling"
    /\ curr < now_ts
    /\ tasks' = Append(tasks, <<curr, curr + ChunkSpan>>)
    /\ curr' = curr + ChunkSpan
    /\ UNCHANGED <<req_start, now_ts, backoff, futures, con, status, running, collector,
                   live_recv, price, backfilled, queryVars, scanVars, passVars>>

\* one turn of "while curr < now_ts"
ChunkStep ==
    /\ status = "Backfilling"
    /\ curr < now_ts
    /\ tasks' = Append(tasks, <<curr, Min(now_ts, curr + ChunkSpan)>>)
    /\ curr' = Min(now_ts, curr + ChunkSpan)
    /\ UNCHANGED <<req_start, now_ts, backoff, futures, con, status, running, collector,
                   live_recv, price, backfilled, queryVars, scanVars, passVars>>

\* the loop is left; one turn of the comprehension over tasks:
\* executor.submit(self.fetch_ticks_chunk, t) for the next task t
Submit ==
    /\ status = "Backfilling"
    /\ curr >= now_ts
    /\ Len(futures) < Len(tasks)
    /\ futures' = Append(futures, [state |-> "queued", data |-> <<>>])
    /\ UNCHANGED <<req_start, now_ts, tasks, curr, backoff, con, status, running, collector,
                   live_recv, price, backfilled, queryVars, scanVars, passVars>>

StartTimes == {0}
NowTimes == {601, 1200}

IngestInit ==
    /\ req_start \in StartTimes
    /\ now_ts \in NowTimes
    /\ tasks = <<>>
    /\ curr = req_start
    /\ futures = <<>>
    /\ con = {}
    /\ status = "Backfilling"
    /\ running = TRUE
    /\ collector = "idle"
    /\ backoff = 0
    /\ live_recv = <<>>
    /\ price = 0
    /\ backfilled = {}

NumRunning == Cardinality({h \in DOMAIN futures : futures[h].state = "running"})

\* a pool worker picks the chunk up, as soon as the chunk is submitted
StartFetch(h) ==
    /\ status = "Backfilling"
    /\ futures[h].state = "queued"
    /\ NumRunning < MaxWorkers
    /\ futures' = [futures EXCEPT ![h].state = "running"]
    /\ UNCHANGED <<req_start, now_ts, tasks, curr, backoff, con, status, running, collector,
                   live_recv, price, backfilled, queryVars, scanVars, passVars>>

\* the response has a history: its rows are the task's result
FetchOk(h) ==
    /\ futures[h].state = "running"
    /\ \E res \in Responses(tasks[h]) :
          futures' = [futures EXCEPT ![h] = [state |-> "done", data |-> ChunkRows(res)]]
    /\ UNCHANGED <<req_start, now_ts, tasks, curr, backoff, con, status, running, collector,
                   live_recv, price, backfilled, queryVars, scanVars, passVars>>

\* a failed fetch puts the chunk back in the queue
FetchFailRetry(h) ==
    /\ futures[h].state = "running"
    /\ futures' = [futures EXCEPT ![h] = [state |-> "queued", data |-> <<>>]]
    /\ UNCHANGED <<req_start, now_ts, tasks, curr, backoff, con, status, running, collector,
                   live_recv, price, backfilled, queryVars, scanVars, passVars>>

\* no history in the response, or any exception: return []
FetchFail(h) ==
    /\ futures[h].state = "running"
    /\ futures' = [futures EXCEPT ![h] = [state |-> "done", data |-> <<>>]]
    /\ UNCHANGED <<req_start, now_ts, tasks, curr, backoff, con, status, running, collector,
                   live_recv, price, backfilled, queryVars, scanVars, passVars>>

\* for future in as_completed(futures): data = future.result(); if data: executemany
\* the loop begins once the comprehension has submitted every task
Merge(h) ==
    /\ status = "Backfilling"
    /\ curr >= now_ts
    /\ Len(futures) = Len(tasks)
    /\ futures[h].state = "done"
    /\ con' = IF futures[h].data # <<>> THEN ExecuteMany(con, futures[h].data) ELSE con
    /\ futures' = [futures EXCEPT ![h].state = "merged"]
    /\ UNCHANGED <<req_start, now_ts, tasks, curr, backoff, status, running, collector,
                   live_recv, price, backfilled, queryVars, scanVars, passVars>>

\* every future is merged: "Backfill Complete", then run() starts tick_collector
BackfillComplete ==
    /\ status = "Backfilling"
    /\ curr >= now_ts
    /\ Len(futures) = Len(tasks)
    /\ \A h \in DOMAIN futures : futures[h].state = "merged"
    /\ status' = "Active & Monitoring"
    /\ futures' = <<>>
    /\ backfilled' = con
    /\ collector' = "connecting"
    /\ UNCHANGED <<req_start, now_ts, tasks, curr, backoff, con, running, live_recv, price, queryVars, scanVars, passVars>>

(* ---------------- tick_collector ---------------- *)

\* epochs of the live ticks: the end of the backfill window and the seconds after it
LiveTimes == {now_ts, now_ts + 1, now_ts + 2}

\* create_connection, authorize, subscribe succeed; then the test of the inner while
Connect ==
    /\ collector = "connecting"
    /\ collector' = IF running THEN "subscribed" ELSE "stopped"
    /\ UNCHANGED <<req_start, now_ts, tasks, curr, backoff, futures, con, status, running,
                   live_recv, price, backfilled, queryVars, scanVars, passVars>>

\* any exception of the inner block: except: time.sleep(5)
CollectorError ==
    /\ collector \in {"connecting", "subscribed"}
    /\ collector' = "sleeping"
    /\ backoff' = Backoff
    /\ UNCHANGED <<req_start, now_ts, tasks, curr, futures, con, status, running,
                   live_recv, price, backfilled, queryVars, scanVars, passVars>>

\* a message with a tick: INSERT OR IGNORE (t, p, t*100000)
RecvTick(t, p) ==
    /\ collector = "subscribed"
    /\ Len(live_recv) < MaxLive
    /\ con' = InsertOrIgnore(con, Row(t, p, t * KeyScale))
    /\ live_recv' = Append(live_recv, [epoch |-> t, quote |-> p])
    /\ collector' = "inserted"
    /\ UNCHANGED <<req_start, now_ts, tasks, curr, backoff, futures, status, running,
                   price, backfilled, queryVars, scanVars, passVars>>

\* LATEST_DATA["price"] = p, for the tick just inserted
SetPrice ==
    /\ collector = "inserted"
    /\ price' = live_recv[Len(live_recv)].quote
    /\ collector' = "looping"
    /\ UNCHANGED <<req_start, now_ts, tasks, curr, backoff, futures, con, status, running,
                   live_recv, backfilled, queryVars, scanVars, passVars>>

\* the test of the inner while after a tick
LoopTest ==
    /\ collector = "looping"
    /\ collector' = IF running THEN "subscribed" ELSE "stopped"
    /\ UNCHANGED <<req_start, now_ts, tasks, curr, backoff, futures, con, status, running,
                   live_recv, price, backfilled, queryVars, scanVars, passVars>>

\* a message without "tick": nothing is done, then the test of the inner while
RecvOther ==
    /\ collector = "subscribed"
    /\ collector' = IF running THEN "subscribed" ELSE "stopped"
    /\ UNCHANGED <<req_start, now_ts, tasks, curr, backoff, futures, con, status, running,
                   live_recv, price, backfilled, queryVars, scanVars, passVars>>

\* a message json.loads rejects, or a tick without epoch or quote: the
\* exception leaves the inner block, except: time.sleep(5)
RecvMalformed ==
    /\ collector = "subscribed"
    /\ collector' = "sleeping"
    /\ backoff' = Backoff
    /\ UNCHANGED <<req_start, now_ts, tasks, curr, futures, con, status, running,
                   live_recv, price, backfilled, queryVars, scanVars, passVars>>

\* the sleep ends at once
WakeAtOnce ==
    /\ collector = "sleeping"
    /\ collector' = IF running THEN "connecting" ELSE "stopped"
    /\ UNCHANGED <<req_start, now_ts, tasks, curr, backoff, futures, con, status, running,
                   live_recv, price, backfilled, queryVars, scanVars, passVars>>

\* a time unit of the sleep passes
SleepTick ==
    /\ collector = "sleeping"
    /\ backoff > 0
    /\ backoff' = backoff - 1
    /\ UNCHANGED <<req_start, now_ts, tasks, curr, futures, con, status, running,
                   collector, live_recv, price, backfilled, queryVars, scanVars, passVars>>

\* the sleep of 5 ends: back to the test of the outer while
Wake ==
    /\ collector = "sleeping"
    /\ backoff = 0
    /\ collector' = IF running THEN "connecting" ELSE "stopped"
    /\ UNCHANGED <<req_start, now_ts, tasks, curr, backoff, futures, con, status, running,
                   live_recv, price, backfilled, queryVars, scanVars, passVars>>

\* self.running is set to False by the holder of the monitor
Stop ==
    /\ running
    /\ status = "Active & Monitoring"
    /\ running' = FALSE
    /\ UNCHANGED <<req_start, now_ts, tasks, curr, backoff, futures, con, status, collector,
                   live_recv, price, backfilled, queryVars, scanVars, passVars>>

IngestNext ==
    \/ ChunkStep
    \/ Submit
    \/ \E h \in DOMAIN futures : StartFetch(h)
    \/ \E h \in DOMAIN futures : FetchOk(h)
    \/ \E h \in DOMAIN futures : FetchFail(h)
    \/ \E h \in DOMAIN futures : Merge(h)
    \/ BackfillComplete
    \/ Connect
    \/ CollectorError
    \/ \E t \in LiveTimes, p \in 1..MaxPrice : RecvTick(t, p)
    \/ SetPrice
    \/ LoopTest
    \/ RecvOther
    \/ RecvMalformed
    \/ SleepTick
    \/ Wake
    \/ Stop

(* ---------------- analyze_logic: the candle query ---------------- *)

\* FLOOR(a / b) for integers a and b > 0
FloorDiv(a, b) == a \div b

\* the bucket of the whole timestamp, shifted afterwards
BucketShiftAfter(t, c, o) == FloorDiv(t, c) * c + o

\* CAST(FLOOR((timestamp - {offset}) / {cycle}) AS BIGINT) * {cycle} + {offset}
Bucket(t, c, o) == FloorDiv(t - o, c) * c + o

\* WHERE timestamp >= {start_ts}
Window(table, start) == {r \in table : r.timestamp >= start}

\* the price of the cheapest row
MinPrice(rows) ==
    (CHOOSE r \in rows : \A q \in rows : r.price <= q.price).price

\* arg_min(price, sort_key)
ArgMin(rows) ==
    (CHOOSE r \in rows : \A q \in rows : r.sort_key <= q.sort_key).price

\* arg_max(price, sort_key)
ArgMax(rows) ==
    (CHOOSE r \in rows : \A q \in rows : r.sort_key >= q.sort_key).price

\* ORDER BY bucket ASC
RECURSIVE Ascending(_)
Ascending(S) ==
    IF S = {} THEN <<>>
    ELSE LET m == CHOOSE x \in S : \A y \in S : x <= y
         IN  <<m>> \o Ascending(S \ {m})

\* SELECT bucket, arg_min(price, sort_key), arg_max(price, sort_key) FROM ticks
\* WHERE timestamp >= start_ts GROUP BY bucket ORDER BY bucket ASC
Candles(table, c, o, start) ==
    LET W == Window(table, start)
        B == Ascending({Bucket(r.timestamp, c, o) : r \in W})
        G(b) == {r \in W : Bucket(r.timestamp, c, o) = b}
    IN  [k \in 1..Len(B) |-> <<B[k], ArgMin(G(B[k])), ArgMax(G(B[k]))>>]

\* candles = self.con.execute(query).fetchall()
Query ==
    /\ pc = "query"
    /\ candles' = Candles(con, cycle, offset, start_ts)
    /\ pc' = "queried"
    /\ UNCHANGED <<ingestVars, cycle, offset, start_ts, scanVars, passVars>>

\* the ingest variables once backfill is over, for a given table
IngestAt(table) ==
    /\ req_start = 0
    /\ now_ts = 0
    /\ tasks = <<>>
    /\ curr = 0
    /\ futures = <<>>
    /\ con = table
    /\ status = "Active & Monitoring"
    /\ running = TRUE
    /\ collector = "connecting"
    /\ backoff = 0
    /\ live_recv = <<>>
    /\ price = 0
    /\ backfilled = table

\* analyze_logic has not been entered
AnalysisIdle ==
    /\ pc = "idle"
    /\ cycle = 0
    /\ offset = 0
    /\ start_ts = 0
    /\ candles = <<>>

\* no scan has begun
ScanIdle ==
    /\ i = 0
    /\ prev_ts = 0
    /\ curr_color = "Gray"
    /\ curr_streak = 0
    /\ red_streaks = <<>>
    /\ green_streaks = <<>>

\* the requests to /update_config: each is served by a thread of its own
Handlers == 1..MaxHandlers

NoRequest == [min_c |-> 0, max_c |-> 0, min_s |-> 0, max_s |-> 0]

\* no request to update_config has come, no pair is being scored, and the time is 0
SchedIdle ==
    /\ update = [h \in Handlers |-> [pc |-> "idle", data |-> NoRequest]]
    /\ cycle_start = 0
    /\ todo = <<>>
    /\ pass_config = CONFIG
    /\ clock = 0
    /\ pass_started = 0

\* CONFIG as the module sets it, and no pass made
PassIdle ==
    /\ CONFIG = [MIN_CYCLE |-> 60, MAX_CYCLE |-> 60, MIN_STRENGTH |-> 57, MAX_STRENGTH |-> 80]
    /\ cycle_stop = 0
    /\ streak_kings = <<>>
    /\ kings = <<>>
    /\ passes = 0
    /\ SchedIdle

Init == IngestInit /\ AnalysisIdle /\ ScanIdle /\ PassIdle

Next == IngestNext

Spec == Init /\ [][Next]_vars

(* ---- SpecBucket: the query on a table of one tick ---- *)

BucketCycles == {1, 2, 3, 7, 60}

BucketInit ==
    /\ \E t \in 0..MaxBucketTs : IngestAt({Row(t, 1, t * KeyScale)})
    /\ pc = "query"
    /\ cycle \in BucketCycles
    /\ offset \in 0..(cycle - 1)
    /\ start_ts = 0
    /\ candles = <<>>
    /\ ScanIdle
    /\ PassIdle

SpecBucket == BucketInit /\ [][Query]_vars

(* ---- SpecAgg: the query on a table of up to MaxRows ticks ---- *)

AggCycles == {1, 2, 3}

AggStarts == {0, 2}

\* the rows a table can hold: the key of a backfilled tick is its timestamp
\* scaled plus its index in the response, the key of a live tick its
\* timestamp scaled
AggRows ==
    {Row(t, p, t * KeyScale + k) : t \in 0..MaxAggTs, p \in 1..MaxPrice, k \in 0..1}

RECURSIVE TablesOfSize(_)
TablesOfSize(n) ==
    IF n = 0 THEN {{}}
    ELSE LET S == TablesOfSize(n - 1)
         IN  S \cup {tb \cup {r} : tb \in S, r \in AggRows}

AggTables ==
    {tb \in TablesOfSize(MaxRows) :
        \A r1, r2 \in tb : r1.sort_key = r2.sort_key => r1 = r2}

AggInit ==
    /\ \E tb \in AggTables : IngestAt(tb)
    /\ pc = "query"
    /\ cycle \in AggCycles
    /\ offset \in 0..(cycle - 1)
    /\ start_ts \in AggStarts
    /\ candles = <<>>
    /\ ScanIdle
    /\ PassIdle

SpecAgg == AggInit /\ [][Query]_vars

(* ---------------- analyze_logic: the streak scan ---------------- *)

\* 'Red' if c < o else ('Green' if c > o else 'Gray')
Color(o, c) == IF c < o THEN "Red" ELSE IF c > o THEN "Green" ELSE "Gray"

\* d[k] += 1 on a defaultdict(int)
Incr(d, k) ==
    IF k \in DOMAIN d THEN [d EXCEPT ![k] = @ + 1]
    ELSE [x \in DOMAIN d \cup {k} |-> IF x = k THEN 1 ELSE d[x]]

\* if curr_streak > 0: red_streaks[curr_streak] += 1 or green_streaks[curr_streak] += 1
CloseRed(st) ==
    IF st.curr_streak > 0 /\ st.curr_color = "Red"
    THEN Incr(st.red_streaks, st.curr_streak) ELSE st.red_streaks

CloseGreen(st) ==
    IF st.curr_streak > 0 /\ st.curr_color = "Green"
    THEN Incr(st.green_streaks, st.curr_streak) ELSE st.green_streaks

\* the body of the loop with the restart test "if color != 'Gray'": a coloured
\* candle after a gap starts a run
StepGapStartsRun(st, cand, cyc) ==
    LET ts == cand[1]
        is_gap == (ts - st.prev_ts) > cyc
        color == Color(cand[2], cand[3])
    IN  IF is_gap \/ color = "Gray"
        THEN [prev_ts |-> ts,
              curr_color |-> IF color # "Gray" THEN color ELSE "Gray",
              curr_streak |-> IF color # "Gray" THEN 1 ELSE 0,
              red_streaks |-> CloseRed(st),
              green_streaks |-> CloseGreen(st)]
        ELSE IF color = st.curr_color
        THEN [st EXCEPT !.prev_ts = ts, !.curr_streak = @ + 1]
        ELSE [prev_ts |-> ts,
              curr_color |-> color,
              curr_streak |-> 1,
              red_streaks |-> CloseRed(st),
              green_streaks |-> CloseGreen(st)]

\* the body of "for i in range(1, len(candles))" on the candle cand
StepOnCandle(st, cand, cyc) ==
    LET ts == cand[1]
        is_gap == (ts - st.prev_ts) > cyc
        color == Color(cand[2], cand[3])
    IN  IF is_gap \/ color = "Gray"
        THEN [prev_ts |-> ts,
              curr_color |-> IF ~is_gap /\ color # "Gray" THEN color ELSE "Gray",
              curr_streak |-> IF ~is_gap /\ color # "Gray" THEN 1 ELSE 0,
              red_streaks |-> CloseRed(st),
              green_streaks |-> CloseGreen(st)]
        ELSE IF color = st.curr_color
        THEN [st EXCEPT !.prev_ts = ts, !.curr_streak = @ + 1]
        ELSE [prev_ts |-> ts,
              curr_color |-> color,
              curr_streak |-> 1,
              red_streaks |-> CloseRed(st),
              green_streaks |-> CloseGreen(st)]

ScanState ==
    [prev_ts |-> prev_ts, curr_color |-> curr_color, curr_streak |-> curr_streak,
     red_streaks |-> red_streaks, green_streaks |-> green_streaks]

SetScanState(st) ==
    /\ prev_ts' = st.prev_ts
    /\ curr_color' = st.curr_color
    /\ curr_streak' = st.curr_streak
    /\ red_streaks' = st.red_streaks
    /\ green_streaks' = st.green_streaks

\* if len(candles) < 5: continue
TooFew ==
    /\ pc = "queried"
    /\ Len(candles) < MinCandles
    /\ pc' = "skipped"
    /\ UNCHANGED <<ingestVars, cycle, offset, start_ts, candles, scanVars, passVars>>

\* the two empty histograms and the run state after the first candle
ScanBegin ==
    /\ pc = "queried"
    /\ Len(candles) >= MinCandles
    /\ red_streaks' = <<>>
    /\ green_streaks' = <<>>
    /\ prev_ts' = candles[1][1]
    /\ curr_color' = Color(candles[1][2], candles[1][3])
    /\ curr_streak' = IF Color(candles[1][2], candles[1][3]) # "Gray" THEN 1 ELSE 0
    /\ i' = 1
    /\ pc' = "scan"
    /\ UNCHANGED <<ingestVars, cycle, offset, start_ts, candles, passVars>>

\* one turn of the loop: candles[i] of the code is candles[i + 1] here
ScanStep ==
    /\ pc = "scan"
    /\ i < Len(candles)
    /\ SetScanState(StepOnCandle(ScanState, candles[i + 1], cycle))
    /\ i' = i + 1
    /\ UNCHANGED <<ingestVars, pc, cycle, offset, start_ts, candles, passVars>>

\* the loop is left and the open run is not counted
ScanEndDropsOpenRun ==
    /\ pc = "scan"
    /\ i = Len(candles)
    /\ pc' = "scanned"
    /\ UNCHANGED <<ingestVars, cycle, offset, start_ts, candles, scanVars, passVars>>

\* after the loop the open run is closed
ScanEnd ==
    /\ pc = "scan"
    /\ i = Len(candles)
    /\ red_streaks' = CloseRed(ScanState)
    /\ green_streaks' = CloseGreen(ScanState)
    /\ pc' = "scanned"
    /\ UNCHANGED <<ingestVars, cycle, offset, start_ts, candles, i, prev_ts,
                   curr_color, curr_streak, passVars>>

(* ---- SpecScan: the query and the scan on a table of MaxSlots buckets ---- *)

ScanCycles == {1, 60}

\* what a bucket holds: two ticks with a rising price, two with a falling
\* price, one tick, or none
SlotKinds == {"up", "down", "one", "none"}

SlotRows(kind, t) ==
    CASE kind = "up" -> {Row(t, 1, t * KeyScale), Row(t, 2, t * KeyScale + 1)}
      [] kind = "down" -> {Row(t, 2, t * KeyScale), Row(t, 1, t * KeyScale + 1)}
      [] kind = "one" -> {Row(t, 1, t * KeyScale)}
      [] OTHER -> {}

ScanTable(kinds, cyc) ==
    UNION {SlotRows(kinds[k], (k - 1) * cyc) : k \in 1..MaxSlots}

ScanInit ==
    /\ cycle \in ScanCycles
    /\ \E kinds \in [1..MaxSlots -> SlotKinds] : IngestAt(ScanTable(kinds, cycle))
    /\ pc = "query"
    /\ offset = 0
    /\ start_ts = 0
    /\ candles = <<>>
    /\ ScanIdle
    /\ PassIdle

ScanNext == Query \/ TooFew \/ ScanBegin \/ ScanStep \/ ScanEnd

SpecScan == ScanInit /\ [][ScanNext]_vars

(* ---------------- analyze_logic: strength and kings ---------------- *)

\* The strength (1 - (nxt/count)) * 100 is a double.  It is kept here as the
\* exact fraction num/den together with err, the sign of (the double - the
\* exact value).  Every comparison the code makes is against a number with at
\* most two decimals, so err matters only when the exact value is itself such
\* a number; FloatErr lists these entries for nxt, count <= 12.
FloatErr(nxt, count) ==
    IF <<nxt, count>> \in {<<6, 5>>, <<7, 5>>, <<7, 10>>, <<12, 10>>} THEN 1
    ELSE IF <<nxt, count>> \in {<<4, 5>>, <<8, 5>>, <<11, 5>>, <<8, 10>>, <<9, 10>>,
                                <<11, 10>>} THEN -1
    ELSE 0

\* the share of the runs that did extend: (nxt/count) * 100
StrengthOfNext(nxt, count) ==
    [num |-> 100 * nxt, den |-> count, err |-> 0]

\* strength = (1 - (nxt/count)) * 100
Strength(nxt, count) ==
    [num |-> 100 * (count - nxt), den |-> count, err |-> FloatErr(nxt, count)]

\* x <= s for an integer x
LeqStrength(x, s) == x * s.den < s.num \/ (x * s.den = s.num /\ s.err >= 0)

\* s <= x for an integer x
StrengthLeq(s, x) == s.num < x * s.den \/ (s.num = x * s.den /\ s.err <= 0)

\* float(CONFIG["MIN_STRENGTH"]) <= strength <= float(CONFIG["MAX_STRENGTH"])
InBand(s, cfg) ==
    LeqStrength(cfg.MIN_STRENGTH, s) /\ StrengthLeq(s, cfg.MAX_STRENGTH)

\* round(strength, 2), in hundredths: the nearest, the even one on a tie
Round2(s) ==
    LET a == 100 * s.num
        q == (2 * a + s.den) \div (2 * s.den)
    IN  IF (2 * a + s.den) % (2 * s.den) = 0 /\ q % 2 = 1 THEN q - 1 ELSE q

\* strength > streak_kings[key]['strength'], the stored value being in hundredths
GtStored(s, stored) ==
    100 * s.num > stored * s.den \/ (100 * s.num = stored * s.den /\ s.err > 0)

\* "tf": f"C{cycle}_{offset:02d}": the label names the pair, kept as the pair
TfLabel(c, o) == <<c, o>>

King(c, o, col, length, count, nxt) ==
    [tf |-> TfLabel(c, o), color |-> col, level |-> length, curr |-> count,
     next |-> nxt, strength |-> Round2(Strength(nxt, count))]

\* s_dict.get(length + 1, 0)
Get(d, k) == IF k \in DOMAIN d THEN d[k] ELSE 0

\* if key not in streak_kings or strength > streak_kings[key]['strength']
Takes(sk, key, s) == key \notin DOMAIN sk \/ GtStored(s, sk[key].strength)

\* streak_kings[key] = king
Put(sk, key, king) ==
    [x \in DOMAIN sk \cup {key} |-> IF x = key THEN king ELSE sk[x]]

\* 'Green' < 'Red'
ColorRank(col) == IF col = "Green" THEN 0 ELSE 1

\* key=lambda x: (x['color'], x['level'])
KingBeforeByColor(a, b) ==
    ColorRank(a.color) < ColorRank(b.color) \/ (a.color = b.color /\ a.level < b.level)

KingBefore(a, b) ==
    a.level < b.level \/ (a.level = b.level /\ ColorRank(a.color) < ColorRank(b.color))

\* sorted(streak_kings.values(), key=lambda x: (x['level'], x['color']))
RECURSIVE SortKings(_)
SortKings(S) ==
    IF S = {} THEN <<>>
    ELSE LET m == CHOOSE x \in S : \A y \in S \ {x} : KingBefore(x, y)
         IN  <<m>> \o SortKings(S \ {m})

\* the pair after (c, o) in "for cycle in range(..): for offset in range(cycle)"
HasNextPair(c, o, stop) == o + 1 < c \/ c + 1 < stop

NextCycle(c, o) == IF o + 1 < c THEN c ELSE c + 1

NextOffset(c, o) == IF o + 1 < c THEN o + 1 ELSE 0

\* the first cycle of range(lo, ..) for which "for offset in range(cycle)" has
\* a turn: range(cycle) is empty for cycle <= 0
FirstCycle(lo) == IF lo < 1 THEN 1 ELSE lo

\* while self.running: analyze_logic is entered: streak_kings = {};
\* now_ts = int(time.time()); start_ts = now_ts - (24 * 3600)
PassBegin ==
    /\ pc = "idle"
    /\ running
    /\ passes < MaxPasses
    /\ passes' = passes + 1
    /\ streak_kings' = <<>>
    /\ start_ts' = clock - DayWindow
    /\ pc' = "range_min"
    /\ pass_config' = CONFIG
    /\ pass_started' = clock
    /\ UNCHANGED <<ingestVars, cycle, offset, candles, scanVars, CONFIG, cycle_start,
                   cycle_stop, todo, kings, update, clock>>

\* the first argument of range(): int(CONFIG["MIN_CYCLE"])
RangeMin ==
    /\ pc = "range_min"
    /\ cycle_start' = CONFIG.MIN_CYCLE
    /\ pc' = "range_max"
    /\ UNCHANGED <<ingestVars, cycle, offset, start_ts, candles, scanVars, CONFIG,
                   cycle_stop, todo, streak_kings, kings, passes, update, pass_config,
                   clock, pass_started>>

\* the second argument of range(): int(CONFIG["MAX_CYCLE"]) + 1; the loops
\* are entered at their first pair, or left when there is none
RangeMax ==
    /\ pc = "range_max"
    /\ cycle_stop' = CONFIG.MAX_CYCLE + 1
    /\ IF FirstCycle(cycle_start) < CONFIG.MAX_CYCLE + 1
       THEN /\ pc' = "pair"
            /\ cycle' = FirstCycle(cycle_start)
            /\ offset' = 0
       ELSE /\ pc' = "return"
            /\ UNCHANGED <<cycle, offset>>
    /\ UNCHANGED <<ingestVars, start_ts, candles, scanVars, CONFIG, cycle_start, todo,
                   streak_kings, kings, passes, update, pass_config, clock, pass_started>>

\* the loops move on to the next pair, or end
Advance ==
    /\ pc' = IF HasNextPair(cycle, offset, cycle_stop) THEN "pair" ELSE "return"
    /\ cycle' = IF HasNextPair(cycle, offset, cycle_stop) THEN NextCycle(cycle, offset) ELSE cycle
    /\ offset' = IF HasNextPair(cycle, offset, cycle_stop) THEN NextOffset(cycle, offset) ELSE offset

\* the histograms a scan can end with
Histograms ==
    {[L \in {x \in 1..MaxLen : f[x] # 0} |-> f[L]] : f \in [1..MaxLen -> 0..MaxCount]}

\* the orders in which the items of a dict with the keys S can come: a dict is
\* iterated in the order in which its keys were inserted
RECURSIVE Orders(_)
Orders(S) ==
    IF S = {} THEN {<<>>}
    ELSE UNION {{<<x>> \o rest : rest \in Orders(S \ {x})} : x \in S}

\* for col_name, s_dict in [('Red', red_streaks), ('Green', green_streaks)]:
\* for length, count in s_dict.items(): the entries of red, then those of green
EntryOrders(red, green) ==
    {r \o g : r \in Orders({<<"Red", L>> : L \in DOMAIN red}),
              g \in Orders({<<"Green", L>> : L \in DOMAIN green})}

\* the query of the pair gives fewer than 5 candles: continue
PairSkipped ==
    /\ pc = "pair"
    /\ Advance
    /\ UNCHANGED <<ingestVars, start_ts, candles, scanVars, passVars>>

\* the query and the scan of the pair: the two histograms, and the order in
\* which the scan inserted their entries
PairScanned ==
    /\ pc = "pair"
    /\ red_streaks' \in Histograms
    /\ green_streaks' \in Histograms
    /\ todo' \in EntryOrders(red_streaks', green_streaks')
    /\ pc' = "score"
    /\ UNCHANGED <<ingestVars, cycle, offset, start_ts, candles, i, prev_ts,
                   curr_color, curr_streak, CONFIG, cycle_start, cycle_stop, streak_kings,
                   kings, passes, update, pass_config, clock, pass_started>>

\* the entry the iteration is at: its histogram, its count and
\* nxt = s_dict.get(length+1, 0)
HeadHist == IF Head(todo)[1] = "Red" THEN red_streaks ELSE green_streaks

HeadCount == HeadHist[Head(todo)[2]]

HeadNext == Get(HeadHist, Head(todo)[2] + 1)

\* if count == 0: continue; strength = (1 - (nxt/count)) * 100;
\* float(CONFIG["MIN_STRENGTH"]) <= strength, the first half of the band test
BandMin ==
    /\ pc = "score"
    /\ todo # <<>>
    /\ IF HeadCount # 0 /\ LeqStrength(CONFIG.MIN_STRENGTH, Strength(HeadNext, HeadCount))
       THEN /\ pc' = "band"
            /\ todo' = todo
       ELSE /\ pc' = "score"
            /\ todo' = Tail(todo)
    /\ UNCHANGED <<ingestVars, cycle, offset, start_ts, candles, scanVars, CONFIG,
                   cycle_start, cycle_stop, streak_kings, kings, passes, update,
                   pass_config, clock, pass_started>>

\* strength <= float(CONFIG["MAX_STRENGTH"]), the second half of the band test;
\* if key not in streak_kings or strength > streak_kings[key]['strength']:
\* streak_kings[key] = {...}
BandMax ==
    /\ pc = "band"
    /\ streak_kings' =
          IF /\ StrengthLeq(Strength(HeadNext, HeadCount), CONFIG.MAX_STRENGTH)
             /\ Takes(streak_kings, Head(todo), Strength(HeadNext, HeadCount))
          THEN Put(streak_kings, Head(todo),
                   King(cycle, offset, Head(todo)[1], Head(todo)[2], HeadCount, HeadNext))
          ELSE streak_kings
    /\ todo' = Tail(todo)
    /\ pc' = "score"
    /\ UNCHANGED <<ingestVars, cycle, offset, start_ts, candles, scanVars, CONFIG,
                   cycle_start, cycle_stop, kings, passes, update, pass_config, clock,
                   pass_started>>

\* both histograms are iterated: the loops move on
PairDone ==
    /\ pc = "score"
    /\ todo = <<>>
    /\ Advance
    /\ UNCHANGED <<ingestVars, start_ts, candles, scanVars, passVars>>

\* the sleep of run() after a pass that took d time units: time.sleep(10)
SleepAfter(d) == SleepInterval

\* the pass has taken d time units when run() has published; then run() sleeps
PassEnds ==
    \E d \in 0..MaxDuration : clock' = pass_started + d + SleepAfter(d)

\* return sorted(...); LATEST_DATA["kings"] = kings; time.sleep(10)
Publish ==
    /\ pc = "return"
    /\ kings' = SortKings({streak_kings[key] : key \in DOMAIN streak_kings})
    /\ pc' = "idle"
    /\ PassEnds
    /\ UNCHANGED <<ingestVars, cycle, offset, start_ts, candles, scanVars, CONFIG,
                   cycle_start, cycle_stop, todo, streak_kings, passes, update, pass_config,
                   pass_started>>

\* the error leaves LATEST_DATA["kings"] as it was
AnalysisErrorKeepsKings ==
    /\ pc \in {"pair", "score", "band", "return"}
    /\ pc' = "idle"
    /\ PassEnds
    /\ UNCHANGED <<ingestVars, cycle, offset, start_ts, candles, scanVars, CONFIG,
                   cycle_start, cycle_stop, todo, streak_kings, kings, passes, update,
                   pass_config, pass_started>>

\* except Exception as e: return []; LATEST_DATA["kings"] = kings; time.sleep(10)
AnalysisError ==
    /\ pc \in {"pair", "score", "band", "return"}
    /\ kings' = <<>>
    /\ pc' = "idle"
    /\ PassEnds
    /\ UNCHANGED <<ingestVars, cycle, offset, start_ts, candles, scanVars, CONFIG,
                   cycle_start, cycle_stop, todo, streak_kings, passes, update, pass_config,
                   pass_started>>

(* ---------------- update_config ---------------- *)

\* a request arrives and a thread of the server enters update_config:
\* data = request.json.  The threads are numbered in the order of arrival
UpdateRequest(h, data) ==
    /\ update[h].pc = "idle"
    /\ \A g \in Handlers : g < h => update[g].pc # "idle"
    /\ update' = [update EXCEPT ![h] = [pc |-> "min_c", data |-> data]]
    /\ UNCHANGED <<ingestVars, queryVars, scanVars, CONFIG, cycle_start, cycle_stop, todo,
                   streak_kings, kings, passes, pass_config, clock, pass_started>>

\* the assignment of CONFIG[field] from data[key], then on to the next line
Assign(h, at, field, key, next) ==
    /\ update[h].pc = at
    /\ CONFIG' = [CONFIG EXCEPT ![field] = update[h].data[key]]
    /\ update' = [update EXCEPT ![h].pc = next]
    /\ UNCHANGED <<ingestVars, queryVars, scanVars, cycle_start, cycle_stop, todo,
                   streak_kings, kings, passes, pass_config, clock, pass_started>>

\* CONFIG["MIN_CYCLE"] = int(data['min_c'])
SetMinCycle(h) == Assign(h, "min_c", "MIN_CYCLE", "min_c", "max_c")

\* CONFIG["MAX_CYCLE"] = int(data['max_c'])
SetMaxCycle(h) == Assign(h, "max_c", "MAX_CYCLE", "max_c", "min_s")

\* CONFIG["MIN_STRENGTH"] = float(data['min_s'])
SetMinStrength(h) == Assign(h, "min_s", "MIN_STRENGTH", "min_s", "max_s")

\* CONFIG["MAX_STRENGTH"] = float(data['max_s']); return jsonify({"status": "ok"})
SetMaxStrength(h) == Assign(h, "max_s", "MAX_STRENGTH", "max_s", "done")

(* ---- SpecStrength: the scoring of one histogram entry ---- *)

Thresholds == {0, 10, 20, 30, 57, 80, 100}

StrengthInit ==
    /\ IngestAt({})
    /\ pc = "score"
    /\ cycle = 1
    /\ offset = 0
    /\ start_ts = 0
    /\ candles = <<>>
    /\ i = 0
    /\ prev_ts = 0
    /\ curr_color = "Gray"
    /\ curr_streak = 0
    /\ \E count \in 1..MaxRuns, nxt \in 0..MaxRuns :
          red_streaks = [L \in {x \in 1..2 : x = 1 \/ nxt # 0} |->
                            IF L = 1 THEN count ELSE nxt]
    /\ green_streaks = <<>>
    /\ \E lo \in Thresholds, hi \in Thresholds :
          CONFIG = [MIN_CYCLE |-> 1, MAX_CYCLE |-> 1, MIN_STRENGTH |-> lo,
                    MAX_STRENGTH |-> hi]
    /\ cycle_start = 1
    /\ cycle_stop = 2
    /\ todo \in EntryOrders(red_streaks, green_streaks)
    /\ streak_kings = <<>>
    /\ kings = <<>>
    /\ passes = 1
    /\ update = [h \in Handlers |-> [pc |-> "idle", data |-> NoRequest]]
    /\ pass_config = CONFIG
    /\ clock = 0
    /\ pass_started = 0

StrengthNext == BandMin \/ BandMax \/ PairDone \/ Publish

SpecStrength == StrengthInit /\ [][StrengthNext]_vars

(* ---- SpecPass: the passes of run() over the grid ---- *)

PassConfigs ==
    {[MIN_CYCLE |-> lo, MAX_CYCLE |-> 2, MIN_STRENGTH |-> b[1], MAX_STRENGTH |-> b[2]] :
        lo \in {1, 2}, b \in {<<57, 80>>, <<30, 80>>}}

PassInit ==
    /\ IngestAt({})
    /\ AnalysisIdle
    /\ ScanIdle
    /\ CONFIG \in PassConfigs
    /\ cycle_stop = 0
    /\ streak_kings = <<>>
    /\ kings = <<>>
    /\ passes = MaxPasses - 1
    /\ SchedIdle

PassNext ==
    \/ PassBegin
    \/ RangeMin
    \/ RangeMax
    \/ PairSkipped
    \/ PairScanned
    \/ BandMin
    \/ BandMax
    \/ PairDone
    \/ Publish

SpecPass == PassInit /\ [][PassNext]_vars

(* ---- SpecChunk: backfill_data from the chunk loop on, every fetch failing ---- *)

ChunkStarts == {0, 1, 600}

\* now - start: around every multiple of the chunk width, and -1
ChunkSpans == {k * ChunkSpan + d : k \in 0..MaxChunks, d \in {-1, 0, 1}}

ChunkInit ==
    /\ req_start \in ChunkStarts
    /\ \E span \in ChunkSpans : now_ts = req_start + span
    /\ tasks = <<>>
    /\ curr = req_start
    /\ futures = <<>>
    /\ con = {}
    /\ status = "Backfilling"
    /\ running = TRUE
    /\ collector = "idle"
    /\ backoff = 0
    /\ live_recv = <<>>
    /\ price = 0
    /\ backfilled = {}
    /\ AnalysisIdle
    /\ ScanIdle
    /\ PassIdle

ChunkNext ==
    \/ ChunkStep
    \/ Submit
    \/ \E h \in DOMAIN futures : StartFetch(h)
    \/ \E h \in DOMAIN futures : FetchFail(h)
    \/ \E h \in DOMAIN futures : Merge(h)
    \/ BackfillComplete

\* the thread of run() keeps running: the loop takes its next turn
SpecChunk == ChunkInit /\ [][ChunkNext]_vars /\ WF_vars(ChunkStep)

(* ---- SpecCollector: tick_collector on an empty table ---- *)

CollectorInit ==
    /\ IngestAt({})
    /\ AnalysisIdle
    /\ ScanIdle
    /\ PassIdle

CollectorNext ==
    \/ Connect
    \/ RecvMalformed
    \/ CollectorError
    \/ \E t \in LiveTimes, p \in 1..MaxPrice : RecvTick(t, p)
    \/ SetPrice
    \/ LoopTest
    \/ RecvOther
    \/ SleepTick
    \/ Wake
    \/ Stop

\* the collector's thread keeps running: the sleep passes and ends
SpecCollector ==
    CollectorInit /\ [][CollectorNext]_vars /\ WF_vars(SleepTick) /\ WF_vars(Wake)

(* ---- SpecSched: the passes of run() on one (cycle, offset) pair ---- *)

SchedInit ==
    /\ IngestAt({})
    /\ AnalysisIdle
    /\ ScanIdle
    /\ CONFIG = [MIN_CYCLE |-> 1, MAX_CYCLE |-> 1, MIN_STRENGTH |-> 30, MAX_STRENGTH |-> 80]
    /\ cycle_stop = 0
    /\ streak_kings = <<>>
    /\ kings = <<>>
    /\ passes = 0
    /\ SchedIdle

SchedNext == PassNext \/ AnalysisError \/ Stop

SpecSched == SchedInit /\ [][SchedNext]_vars

(* ---- SpecKings: a pass over the pairs (2, 0) and (2, 1), every strength admitted ---- *)

KingsInit ==
    /\ IngestAt({})
    /\ AnalysisIdle
    /\ ScanIdle
    /\ CONFIG = [MIN_CYCLE |-> 2, MAX_CYCLE |-> 2, MIN_STRENGTH |-> 0, MAX_STRENGTH |-> 100]
    /\ cycle_stop = 0
    /\ streak_kings = <<>>
    /\ kings = <<>>
    /\ passes = MaxPasses - 1
    /\ SchedIdle

SpecKings == KingsInit /\ [][PassNext]_vars

(* ---- SpecConfig: a pass of run() while update_config is served ---- *)

\* the bodies of the requests to /update_config
UpdateRequests ==
    {[min_c |-> 0, max_c |-> 1, min_s |-> 30, max_s |-> 80],
     [min_c |-> 2, max_c |-> 1, min_s |-> 57, max_s |-> 100]}

UpdateNext ==
    \/ \E h \in Handlers, data \in UpdateRequests : UpdateRequest(h, data)
    \/ \E h \in Handlers : SetMinCycle(h)
    \/ \E h \in Handlers : SetMaxCycle(h)
    \/ \E h \in Handlers : SetMinStrength(h)
    \/ \E h \in Handlers : SetMaxStrength(h)

ConfigInit ==
    /\ IngestAt({})
    /\ AnalysisIdle
    /\ ScanIdle
    /\ CONFIG = [MIN_CYCLE |-> 1, MAX_CYCLE |-> 1, MIN_STRENGTH |-> 57, MAX_STRENGTH |-> 80]
    /\ cycle_stop = 0
    /\ streak_kings = <<>>
    /\ kings = <<>>
    /\ passes = MaxPasses - 1
    /\ SchedIdle

ConfigNext == PassNext \/ UpdateNext

SpecConfig == ConfigInit /\ [][ConfigNext]_vars

(* ---------------- claims on Spec ---------------- *)

UniqueKeys == \A r1, r2 \in con : r1.sort_key = r2.sort_key => r1 = r2

\* the step merges the result of chunk h into the table
MergedInStep(h) ==
    /\ h \in DOMAIN futures
    /\ h \in DOMAIN futures'
    /\ futures[h].state = "done"
    /\ futures'[h].state = "merged"

\* the step delivers a live tick
LiveInStep == Len(live_recv') = Len(live_recv) + 1

DupInsertNoop ==
    /\ \A r \in con : r \in con'
    /\ \A h \in DOMAIN futures :
          (/\ MergedInStep(h)
           /\ \A k \in 1..Len(futures[h].data) : futures[h].data[k].sort_key \in Keys(con))
          => con' = con
    /\ (LiveInStep /\ live_recv'[Len(live_recv')].epoch * KeyScale \in Keys(con))
          => con' = con

\* C1: inserting a tick whose sort_key is already in the table, by the batch
\* insert of backfill or by the single insert of the live collector, leaves
\* the table unchanged: the stored row keeps its timestamp and price, and no
\* two rows ever share a sort_key.
C1_DuplicateInsertIsNoop == []UniqueKeys /\ [][DupInsertNoop]_vars

\* two live ticks of the same epoch and different quotes were delivered: the
\* second met its sort_key in the table, which still holds the first quote
C1_Witness ==
    \E h, j \in 1..Len(live_recv) :
        /\ h < j
        /\ live_recv[h].epoch = live_recv[j].epoch
        /\ live_recv[h].quote # live_recv[j].quote
        /\ \E r \in con : /\ r.sort_key = live_recv[j].epoch * KeyScale
                          /\ r.price # live_recv[j].quote

\* the live ticks are observations the backfill did not deliver, no two of
\* the same second
FurtherLiveTicks ==
    /\ \A h, j \in 1..Len(live_recv) : h # j => live_recv[h].epoch # live_recv[j].epoch
    /\ \A h \in 1..Len(live_recv) :
          ~ \E r \in backfilled : /\ r.timestamp = live_recv[h].epoch
                                  /\ r.price = live_recv[h].quote

\* C2: after backfill completed with N rows, 3 further live ticks bring the
\* table to exactly N + 3 rows, also when a live tick has the timestamp of a
\* backfilled tick.
C2_LiveTicksAllStored ==
    (status = "Active & Monitoring" /\ Len(live_recv) = 3 /\ FurtherLiveTicks)
        => Cardinality(con) = Cardinality(backfilled) + 3

\* the observation <<t, p>> occurs exactly once in the rows of a chunk
OccursOnce(data, t, p) ==
    Cardinality({k \in 1..Len(data) : data[k].timestamp = t /\ data[k].price = p}) = 1

\* C3: a tick observation (timestamp, price) that the responses of two chunks
\* both contain is stored exactly once after both are merged, whatever its
\* position in each response.
C3_SharedObservationStoredOnce ==
    \A h, j \in DOMAIN futures :
        (h # j /\ futures[h].state = "merged" /\ futures[j].state = "merged") =>
            \A a \in 1..Len(futures[h].data) :
                LET t == futures[h].data[a].timestamp
                    p == futures[h].data[a].price
                IN  (OccursOnce(futures[h].data, t, p) /\ OccursOnce(futures[j].data, t, p))
                        => Cardinality({r \in con : r.timestamp = t /\ r.price = p}) = 1

(* ---------------- claims on SpecBucket ---------------- *)

TheTick == CHOOSE r \in con : TRUE

\* C4: the bucket of a tick at t under cycle c and offset o is
\* floor((t - o) / c) * c + o: bucket <= t < bucket + c and bucket is
\* congruent to o modulo c; for c = 60 a tick at 125 is in bucket 120 with
\* o = 0 and in bucket 90 with o = 30.
C4_BucketOfTick ==
    pc = "queried" =>
        /\ Len(candles) = 1
        /\ LET b == candles[1][1]
               t == TheTick.timestamp
           IN  /\ b <= t
               /\ t < b + cycle
               /\ (b - offset) % cycle = 0
               /\ (cycle = 60 /\ t = 125 /\ offset = 0) => b = 120
               /\ (cycle = 60 /\ t = 125 /\ offset = 30) => b = 90

C4_Witness ==
    /\ pc = "queried"
    /\ cycle = 60
    /\ offset = 30
    /\ TheTick.timestamp = 125
    /\ candles[1][1] = 90

(* ---------------- claims on SpecAgg ---------------- *)

\* the ticks of the window that fall in the bucket starting at b
InBucket(b) ==
    {r \in con : r.timestamp >= start_ts /\ b <= r.timestamp /\ r.timestamp < b + cycle}

\* C5: the candle list has exactly one candle per bucket holding a tick of the
\* window and none for a bucket without one, in ascending bucket order; open
\* is the price of the bucket's tick of least sort_key, close that of its
\* tick of greatest sort_key, so a bucket of one tick has open = close.
C5_OneCandlePerBucket ==
    pc = "queried" =>
        /\ \A r \in con : r.timestamp >= start_ts =>
              Cardinality({k \in 1..Len(candles) : r \in InBucket(candles[k][1])}) = 1
        /\ \A k \in 1..Len(candles) :
              /\ InBucket(candles[k][1]) # {}
              /\ (candles[k][1] - offset) % cycle = 0
              /\ \E r \in InBucket(candles[k][1]) :
                    /\ r.price = candles[k][2]
                    /\ \A q \in InBucket(candles[k][1]) : r.sort_key <= q.sort_key
              /\ \E r \in InBucket(candles[k][1]) :
                    /\ r.price = candles[k][3]
                    /\ \A q \in InBucket(candles[k][1]) : r.sort_key >= q.sort_key
              /\ Cardinality(InBucket(candles[k][1])) = 1 => candles[k][2] = candles[k][3]
        /\ \A k \in 1..(Len(candles) - 1) : candles[k][1] < candles[k + 1][1]

\* two candles with an empty bucket between them, the first of two ticks with
\* different prices, the second of one tick
C5_Witness ==
    /\ pc = "queried"
    /\ Len(candles) = 2
    /\ candles[1][2] # candles[1][3]
    /\ candles[2][1] > candles[1][1] + cycle
    /\ Cardinality(InBucket(candles[2][1])) = 1

(* ---------------- claims on SpecScan ---------------- *)

\* candle k (from 1) lies more than one cycle after the candle before it
IsGapCandle(k) == k >= 2 /\ candles[k][1] - candles[k - 1][1] > cycle

CandleColor(k) == Color(candles[k][2], candles[k][3])

RECURSIVE WeightedRuns(_, _)
WeightedRuns(d, S) ==
    IF S = {} THEN 0
    ELSE LET L == CHOOSE x \in S : TRUE
         IN  L * d[L] + WeightedRuns(d, S \ {L})

\* the candles the histograms count
CountedCandles ==
    WeightedRuns(red_streaks, DOMAIN red_streaks)
        + WeightedRuns(green_streaks, DOMAIN green_streaks)

\* the histograms before the step, with the run open before the step closed
RunClosed ==
    /\ red_streaks' = CloseRed(ScanState)
    /\ green_streaks' = CloseGreen(ScanState)

C6_GapStep ==
    (pc = "scan" /\ i' = i + 1) =>
        /\ IsGapCandle(i + 1) => (curr_streak' = 0 /\ curr_color' = "Gray" /\ RunClosed)
        /\ (curr_streak' = 1 /\ curr_streak # 1) =>
              (CandleColor(i + 1) # "Gray" /\ ~IsGapCandle(i + 1))

C6_GapCandlesUncounted ==
    pc = "scanned" =>
        CountedCandles =
            Cardinality({k \in 1..Len(candles) :
                            CandleColor(k) # "Gray" /\ ~IsGapCandle(k)})

\* C6: a candle more than one cycle after the previous candle closes the
\* current run into the histogram and resets the run to empty; the candle is
\* counted in no run even when coloured, and a run starts only from a
\* coloured candle that is not itself after a gap.
C6_GapClosesAndSkips == []C6_GapCandlesUncounted /\ [][C6_GapStep]_vars

\* the scan has just passed a Green candle after a gap that closed a Green
\* run of length 3, and the run state is empty
C6_Witness ==
    /\ pc = "scan"
    /\ i >= 4
    /\ IsGapCandle(i)
    /\ CandleColor(i) = "Green"
    /\ 3 \in DOMAIN green_streaks
    /\ curr_streak = 0

\* C7: a coloured candle that follows a time gap starts a fresh run of length
\* 1 (Green candles at buckets 0, 60, 120, 240 with cycle 60 give the
\* histogram Green{3:1, 1:1}).
C7_GapCandleStartsRun ==
    (pc = "scan" /\ IsGapCandle(i) /\ CandleColor(i) # "Gray")
        => (curr_streak = 1 /\ curr_color = CandleColor(i))

(* ---------------- claims on SpecStrength ---------------- *)

\* the entry scored: histogram[Red][1] and histogram[Red][2]
EntryCount == red_streaks[1]

EntryNext == Get(red_streaks, 2)

\* 100 * (count - next): the strength is this number over count
EntryPercent == 100 * (EntryCount - EntryNext)

\* min_strength <= strength <= max_strength for the strength the code computed:
\* the exact value, or a double next to it where the two differ
EntryInBand ==
    /\ \/ CONFIG.MIN_STRENGTH * EntryCount < EntryPercent
       \/ /\ CONFIG.MIN_STRENGTH * EntryCount = EntryPercent
          /\ FloatErr(EntryNext, EntryCount) >= 0
    /\ \/ EntryPercent < CONFIG.MAX_STRENGTH * EntryCount
       \/ /\ EntryPercent = CONFIG.MAX_STRENGTH * EntryCount
          /\ FloatErr(EntryNext, EntryCount) <= 0

\* C8: for count = histogram[color][L] > 0 and next = histogram[color][L+1]
\* (0 when absent) the strength is (1 - next/count) * 100 (count = 10 and
\* next = 2 give 80.0), and (color, L) becomes a king candidate if and only
\* if min_strength <= strength <= max_strength.
C8_StrengthAndBand ==
    pc \notin {"score", "band"} =>
        /\ <<"Red", 1>> \in DOMAIN streak_kings <=> EntryInBand
        /\ FloatErr(EntryNext, EntryCount) = 0 =>
              (<<"Red", 1>> \in DOMAIN streak_kings <=>
                  /\ CONFIG.MIN_STRENGTH * EntryCount <= EntryPercent
                  /\ EntryPercent <= CONFIG.MAX_STRENGTH * EntryCount)
        /\ <<"Red", 1>> \in DOMAIN streak_kings =>
              LET k == streak_kings[<<"Red", 1>>]
                  d == k.strength * EntryCount - 100 * EntryPercent
              IN  /\ k.curr = EntryCount
                  /\ k.next = EntryNext
                  /\ k.color = "Red"
                  /\ k.level = 1
                  /\ k.tf = <<cycle, offset>>
                  /\ 2 * d <= EntryCount
                  /\ -2 * d <= EntryCount
                  /\ (EntryCount = 10 /\ EntryNext = 2) => k.strength = 8000
        /\ <<"Red", 2>> \in DOMAIN streak_kings <=>
              (EntryNext # 0 /\ CONFIG.MIN_STRENGTH <= 100 /\ CONFIG.MAX_STRENGTH >= 100)

\* 10 runs of length 1 and 2 of length 2 under the band [57, 80]: admitted
\* with strength 80.00
C8_Witness ==
    /\ pc \notin {"score", "band"}
    /\ EntryCount = 10
    /\ EntryNext = 2
    /\ CONFIG.MIN_STRENGTH = 57
    /\ CONFIG.MAX_STRENGTH = 80
    /\ <<"Red", 1>> \in DOMAIN streak_kings
    /\ streak_kings[<<"Red", 1>>].strength = 8000

(* ---------------- claims on SpecPass ---------------- *)

\* the entry being tested has passed the band test: it is a candidate
HeadIsCandidate ==
    /\ pc = "band"
    /\ pc' = "score"
    /\ InBand(Strength(HeadNext, HeadCount), CONFIG)

\* the candidate has a strength greater than (equal to) the strength of the
\* king retained for its key, as exact fractions
CandidateGreater(key) ==
    (HeadCount - HeadNext) * streak_kings[key].curr
        > (streak_kings[key].curr - streak_kings[key].next) * HeadCount

CandidateEqual(key) ==
    (HeadCount - HeadNext) * streak_kings[key].curr
        = (streak_kings[key].curr - streak_kings[key].next) * HeadCount

\* the step replaces the king of key by the candidate of the pair
Replaced(key) == streak_kings'[key].tf = TfLabel(cycle, offset)

C9_Step ==
    (HeadIsCandidate /\ Head(todo) \in DOMAIN streak_kings) =>
        (Replaced(Head(todo)) <=> CandidateGreater(Head(todo)))

\* C9: the king retained for a (color, level) key has the greatest strength
\* among the candidates of the pass: a later candidate replaces the retained
\* one only if its strength is strictly greater, and one with a strictly
\* greater strength always replaces it.
C9_ReplacedIffStrictlyGreater == [][C9_Step]_vars

C10_Step ==
    (HeadIsCandidate /\ Head(todo) \in DOMAIN streak_kings) =>
        (CandidateEqual(Head(todo)) => streak_kings' = streak_kings)

\* C10: when two (cycle, offset) pairs of a pass give the same strength for a
\* (color, level) key, the king of the pair scanned first is retained,
\* whatever the strength.
C10_TieKeepsFirst == [][C10_Step]_vars

(* ---------------- claims on SpecConfig ---------------- *)

\* the pairs of the pass are those of the cycle bounds the pass began with
C11_Range ==
    pc \in {"pair", "score", "band"} =>
        /\ cycle_stop = pass_config.MAX_CYCLE + 1
        /\ cycle >= pass_config.MIN_CYCLE
        /\ cycle < cycle_stop

\* an entry is tested against the band the pass began with
C11_Step ==
    /\ (pc = "score" /\ todo # <<>> /\ (pc' = "band" \/ todo' # todo)) =>
          (pc' = "band" <=>
              LeqStrength(pass_config.MIN_STRENGTH, Strength(HeadNext, HeadCount)))
    /\ (pc = "band" /\ pc' = "score" /\ streak_kings' # streak_kings) =>
          StrengthLeq(Strength(HeadNext, HeadCount), pass_config.MAX_STRENGTH)

\* C11: a configuration update issued while a pass is in flight does not
\* affect that pass: every pair of the pass is scanned and every candidate
\* filtered with the values CONFIG had when the pass began.
C11_UpdateLeavesPassInFlight == []C11_Range /\ [][C11_Step]_vars

(* ---------------- claims on SpecChunk ---------------- *)

\* the chunks appended so far are half-open ranges that start at req_start,
\* follow one another without a hole or an overlap, are each 1..600 wide and
\* end where the loop stands
C12_Contiguous ==
    /\ tasks # <<>> => tasks[1][1] = req_start
    /\ \A k \in 1..(Len(tasks) - 1) : tasks[k][2] = tasks[k + 1][1]
    /\ \A k \in 1..Len(tasks) :
          /\ 0 < tasks[k][2] - tasks[k][1]
          /\ tasks[k][2] - tasks[k][1] <= ChunkSpan
    /\ tasks # <<>> => (tasks[Len(tasks)][2] = curr /\ curr <= now_ts)

\* once the loop is left the list covers [req_start, now_ts) exactly
C12_Covers ==
    curr >= now_ts =>
        /\ tasks = Chunks(req_start, now_ts)
        /\ tasks = <<>> <=> req_start >= now_ts
        /\ tasks # <<>> => tasks[Len(tasks)][2] = now_ts
        /\ \A t \in req_start..(now_ts - 1) :
              Cardinality({k \in 1..Len(tasks) : tasks[k][1] <= t /\ t < tasks[k][2]}) = 1

\* with an empty window nothing is fetched and nothing inserted
C12_EmptyWindow ==
    req_start >= now_ts => (tasks = <<>> /\ futures = <<>> /\ con = {})

\* C12: the chunk list is a sequence of half-open ranges [s_i, e_i) with
\* s_0 = start_time, e_i = s_(i+1), last e = now and 0 < e_i - s_i <= 600; for
\* start_time >= now it is empty and backfill completes without fetching or
\* inserting; the chunking loop terminates.
C12_ChunksCoverWindow ==
    /\ [](C12_Contiguous /\ C12_Covers /\ C12_EmptyWindow)
    /\ <>(curr >= now_ts)

\* the loop is left with two whole chunks and one of a second
C12_Witness ==
    /\ curr >= now_ts
    /\ Len(tasks) = 3
    /\ tasks[3][2] - tasks[3][1] = 1
    /\ tasks[1][2] - tasks[1][1] = ChunkSpan

(* ---------------- claims on Spec: failed fetches ---------------- *)

\* a chunk is fetched once: its task goes from queued to running to done to
\* merged and never back, and its result, once there, is not replaced
C13_FetchedOnce ==
    \A h \in DOMAIN futures \cap DOMAIN futures' :
        /\ futures[h].state = "running" => futures'[h].state \in {"running", "done"}
        /\ futures[h].state \in {"done", "merged"} =>
              /\ futures'[h].state \in {futures[h].state, "merged"}
              /\ futures'[h].data = futures[h].data
        /\ futures[h].state = "merged" => futures'[h].state = "merged"

\* the merge of a chunk without ticks leaves the table as it is, and no step
\* removes or alters a stored row
C13_FailureIsolated ==
    /\ \A r \in con : r \in con'
    /\ \A h \in DOMAIN futures :
          (MergedInStep(h) /\ futures[h].data = <<>>) => con' = con

\* the rows of the chunks that gave ticks
SuccessfulRows ==
    UNION {{futures[h].data[k] : k \in 1..Len(futures[h].data)} : h \in DOMAIN futures}

\* when every task is resolved and merged backfill can complete, and the
\* table then holds the ticks of the chunks that gave some and nothing else
C13_Completes ==
    (/\ status = "Backfilling"
     /\ curr >= now_ts
     /\ Len(futures) = Len(tasks)
     /\ \A h \in DOMAIN futures : futures[h].state = "merged") =>
        /\ ENABLED BackfillComplete
        /\ con \subseteq SuccessfulRows
        /\ Keys(con) = Keys(SuccessfulRows)

\* C13: a failed chunk fetch contributes no ticks and is not retried; backfill
\* completes once every chunk task has resolved; the table then holds exactly
\* the ticks of the successful chunks, and a failure neither removes nor
\* alters ticks merged from other chunks.
C13_FailedChunkIsSkipped ==
    []C13_Completes /\ [][C13_FetchedOnce /\ C13_FailureIsolated]_vars

\* both chunks are merged, one of them failed and the table holds the ticks
\* of the other; backfill is about to complete
C13_Witness ==
    /\ status = "Backfilling"
    /\ Len(futures) = 2
    /\ \A h \in DOMAIN futures : futures[h].state = "merged"
    /\ futures[1].data = <<>>
    /\ Len(futures[2].data) = 2
    /\ Cardinality(con) = 2

(* ---------------- claims on SpecCollector ---------------- *)

\* the states of the claim: Authorizing is the attempt to connect, authorize
\* and subscribe, Disconnected the sleep after an error
Phase ==
    CASE collector = "connecting" -> "Authorizing"
      [] collector \in {"subscribed", "inserted", "looping"} -> "Subscribed"
      [] collector = "sleeping" -> "Disconnected"
      [] OTHER -> "Stopped"

\* the moves of the collector: Authorizing to Subscribed; an error to
\* Disconnected with a sleep of 5 ahead; Disconnected to Authorizing only when
\* the 5 units have passed and the stop flag is down
C14_Moves ==
    /\ (Phase' = "Subscribed" /\ Phase # "Subscribed") => Phase = "Authorizing"
    /\ (Phase' = "Disconnected" /\ Phase # "Disconnected") =>
          (Phase \in {"Authorizing", "Subscribed"} /\ backoff' = Backoff)
    /\ (Phase = "Disconnected" /\ Phase' = "Disconnected") =>
          backoff' \in {backoff, backoff - 1}
    /\ (Phase = "Disconnected" /\ Phase' # "Disconnected") => backoff = 0
    /\ (Phase' = "Authorizing" /\ Phase # "Authorizing") =>
          (Phase = "Disconnected" /\ running)
    /\ (Phase' = "Stopped" /\ Phase # "Stopped") => ~running

\* the collector ends only when the stop flag is raised
C14_NoTerminalError == Phase = "Stopped" => ~running

\* C14: the collector goes Disconnected -> Authorizing -> Subscribed; any
\* error moves it to Disconnected, where it waits 5 units and re-attempts
\* from Authorizing, again and again while the stop flag is down; once the
\* flag is raised no new attempt is started.
C14_ReconnectsUntilStopped ==
    /\ []C14_NoTerminalError
    /\ [][C14_Moves]_vars
    /\ (Phase = "Disconnected") ~> (Phase = "Authorizing" \/ ~running)

\* a tick was received, then an error, the sleep has passed and the
\* collector is connecting again
C14_Witness ==
    /\ Phase = "Authorizing"
    /\ running
    /\ backoff = 0
    /\ live_recv # <<>>

\* C15: a malformed message (not parseable, or a tick without epoch or
\* quote) or an unrecognized one (no tick) received while Subscribed is
\* ignored: the collector stays Subscribed, the table and the latest price
\* are unchanged.
C15_MalformedIsIgnored ==
    [][(running /\ (RecvMalformed \/ RecvOther)) =>
          (collector' = "subscribed" /\ con' = con /\ price' = price)]_vars

(* ---------------- claims on SpecSched ---------------- *)

\* the pass is left from inside the loops: only an error does that
ErrorInStep == pc \in {"pair", "score", "band"} /\ pc' = "idle"

\* the pass that meets an error publishes the empty list
C16_Step == ErrorInStep => kings' = <<>>

\* after a pass, with or without an error, run() can begin the next one
\* unless the monitor is stopped
C16_GoesOn == (pc = "idle" /\ running /\ passes < MaxPasses) => ENABLED PassBegin

\* C16: when an error occurs inside an analysis pass the pass publishes an
\* empty king list, not the list of the pass before and not the kings
\* gathered before the error, and the scheduler goes on to the next pass.
C16_ErrorPublishesEmpty == []C16_GoesOn /\ [][C16_Step]_vars

\* the second pass met its error after kings were gathered, and the list
\* published is empty
C16_Witness ==
    /\ pc = "idle"
    /\ passes = 2
    /\ streak_kings # <<>>
    /\ kings = <<>>

\* C20: the sleep between two passes is the interval minus the duration of
\* the pass just computed: consecutive passes start one interval apart
\* whatever the pass took to compute.
C20_PassesOneIntervalApart ==
    [][(pc = "idle" /\ pc' # "idle" /\ passes >= 1) =>
          clock - pass_started = SleepInterval]_vars

(* ---------------- claims on SpecKings ---------------- *)

\* C17: the king list published after a pass has at most one entry per
\* (color, level), every entry has color Red or Green, level >= 1 and
\* curr >= 1, and the list is ordered by level ascending and, for equal
\* level, by color (Green before Red).
C17_PublishedKingsSorted ==
    /\ \A k \in 1..Len(kings) :
          /\ kings[k].color \in {"Red", "Green"}
          /\ kings[k].level >= 1
          /\ kings[k].curr >= 1
    /\ \A a, b \in 1..Len(kings) :
          a < b =>
              \/ kings[a].level < kings[b].level
              \/ /\ kings[a].level = kings[b].level
                 /\ kings[a].color = "Green"
                 /\ kings[b].color = "Red"
    /\ (pc = "idle" /\ passes = MaxPasses) =>
          {kings[k] : k \in 1..Len(kings)} = {streak_kings[key] : key \in DOMAIN streak_kings}

\* a list of four kings is published: both colours at levels 1 and 2, taken
\* from the two pairs
C17_Witness ==
    /\ pc = "idle"
    /\ Len(kings) = 4
    /\ kings[1].tf # kings[2].tf
    /\ kings[3].level = 2

(* ---------------- claims on SpecScan: runs and strengths ---------------- *)

\* no candle of the list lies more than one cycle after the one before it
NoGap == \A k \in 2..Len(candles) : ~IsGapCandle(k)

\* the candles a..(a + L - 1) are a maximal run of colour col
IsMaximalRun(col, a, L) ==
    /\ a + L - 1 <= Len(candles)
    /\ \A k \in a..(a + L - 1) : CandleColor(k) = col
    /\ a > 1 => CandleColor(a - 1) # col
    /\ a + L - 1 < Len(candles) => CandleColor(a + L) # col

\* the number of maximal runs of colour col and length exactly L
RunsOf(col, L) == Cardinality({a \in 1..Len(candles) : IsMaximalRun(col, a, L)})

\* C18: for a candle list without a gap, histogram[color][L] after the scan
\* is the number of maximal runs of consecutive candles of that colour of
\* length exactly L (a colour change closes the run and starts one of
\* length 1, a Gray candle closes the run, the run open at the end is
\* counted), so the lengths times the counts add up to the number of
\* non-Gray candles.
C18_HistogramCountsRuns ==
    (pc = "scanned" /\ NoGap) =>
        /\ \A L \in 1..Len(candles) :
              /\ Get(red_streaks, L) = RunsOf("Red", L)
              /\ Get(green_streaks, L) = RunsOf("Green", L)
        /\ DOMAIN red_streaks \cup DOMAIN green_streaks \subseteq 1..Len(candles)
        /\ \A L \in DOMAIN red_streaks : red_streaks[L] >= 1
        /\ \A L \in DOMAIN green_streaks : green_streaks[L] >= 1
        /\ CountedCandles =
              Cardinality({k \in 1..Len(candles) : CandleColor(k) # "Gray"})

\* a list without a gap was scanned: a Green run of 2 closed by a colour
\* change, a Red run closed by a Gray candle, and a Green run open at the end
C18_Witness ==
    /\ pc = "scanned"
    /\ NoGap
    /\ Len(candles) >= 5
    /\ CandleColor(1) = "Green"
    /\ CandleColor(2) = "Green"
    /\ CandleColor(3) = "Red"
    /\ CandleColor(4) = "Gray"
    /\ CandleColor(Len(candles)) = "Green"
    /\ Get(green_streaks, 2) = 1
    /\ Get(red_streaks, 1) = 1

\* the strengths of the entries of a histogram are between 0 and 100
StrengthsInRange(d) ==
    \A L \in DOMAIN d :
        d[L] > 0 =>
            /\ Get(d, L + 1) <= d[L]
            /\ LeqStrength(0, Strength(Get(d, L + 1), d[L]))
            /\ StrengthLeq(Strength(Get(d, L + 1), d[L]), 100)

\* C19: every strength computed from a histogram is a fraction of runs in
\* percent, 0 <= strength <= 100: the number of runs of length L + 1 never
\* exceeds the number of runs of length L.
C19_StrengthIsAFraction ==
    pc = "scanned" => (StrengthsInRange(red_streaks) /\ StrengthsInRange(green_streaks))

====
